---- MODULE Spec2Model ----
(***************************************************************************)
(* Model of scripts/extract_constructor_args.py: the pattern builder       *)
(* version_to_pattern, the extractor extract_constructor_args and the      *)
(* command entry point main.  Python strings are TLA+ strings; TLC         *)
(* evaluates Len, \o and SubSeq on them.                                   *)
(***************************************************************************)
EXTENDS Integers, Sequences, FiniteSets, TLC

VARIABLES
    argv,        \* sys.argv[1:], the positional arguments
    files,       \* the filesystem: path -> [content, readable] of the regular files
    pc,          \* position of the running call
    calls,       \* the functions and system calls made so far, in order
    version,     \* the version string (main's local, version_to_pattern's input)
    data,        \* the blob (main's local, extract_constructor_args' input)
    pattern,     \* version_to_pattern's outcome, or the marker given to the extractor
    args,        \* extract_constructor_args' result
    stdout,      \* what was printed to standard output, one entry per print
    stderr,      \* what was printed to standard error
    exitcode,    \* the process's exit status, -1 while it runs
    version2,    \* a second input of version_to_pattern (same tail, other major)
    pattern2,    \* its outcome
    data2,       \* a second blob for the extractor (a variant of data)
    args2        \* its result

vars == <<argv, files, pc, calls, version, data, pattern, args, stdout, stderr,
          exitcode, version2, pattern2, data2, args2>>

----------------------------------------------------------------------------
(* Python's str and int built-ins, as the script uses them.                *)

CharAt(s, i) == SubSeq(s, i, i)

UpperChars == "ABCDEFGHIJKLMNOPQRSTUVWXYZ"

LowerChars == "abcdefghijklmnopqrstuvwxyz"

\* The characters str.strip() removes and int() skips around a literal.
Whitespace == {" ", "\t", "\n", "\r", "\f"}

DecDigits == "0123456789"

HexDigits == "0123456789abcdef"

\* 1-based position of character c in alphabet, 0 when absent.
IndexIn(c, alphabet) ==
    IF \E i \in 1..Len(alphabet) : CharAt(alphabet, i) = c
    THEN CHOOSE i \in 1..Len(alphabet) : CharAt(alphabet, i) = c
    ELSE 0

\* The lowercase letter of each uppercase letter.
ToLower == [c \in {CharAt(UpperChars, i) : i \in 1..Len(UpperChars)} |->
               CharAt(LowerChars, IndexIn(c, UpperChars))]

LowerChar(c) == IF c \in DOMAIN ToLower THEN ToLower[c] ELSE c

\* str.lower()
RECURSIVE lower(_)
lower(s) == IF s = "" THEN "" ELSE LowerChar(CharAt(s, 1)) \o lower(SubSeq(s, 2, Len(s)))

RECURSIVE lstrip(_)
lstrip(s) ==
    IF s # "" /\ CharAt(s, 1) \in Whitespace THEN lstrip(SubSeq(s, 2, Len(s))) ELSE s

RECURSIVE rstrip(_)
rstrip(s) ==
    IF s # "" /\ CharAt(s, Len(s)) \in Whitespace THEN rstrip(SubSeq(s, 1, Len(s) - 1)) ELSE s

\* str.strip()
strip(s) == rstrip(lstrip(s))

\* str.startswith(prefix)
startswith(s, prefix) == Len(prefix) <= Len(s) /\ SubSeq(s, 1, Len(prefix)) = prefix

\* str.find(sub) scanning from 0-based index i: the lowest index at which sub
\* occurs, -1 when there is none.
RECURSIVE FindFrom(_, _, _)
FindFrom(s, sub, i) ==
    IF i + Len(sub) > Len(s) THEN -1
    ELSE IF SubSeq(s, i + 1, i + Len(sub)) = sub THEN i
    ELSE FindFrom(s, sub, i + 1)

find(s, sub) == FindFrom(s, sub, 0)

\* str.split(sep) for a one-character separator: the list of fields.
RECURSIVE split(_, _)
split(s, sep) ==
    LET i == find(s, sep) IN
    IF i = -1 THEN <<s>>
    ELSE <<SubSeq(s, 1, i)>> \o split(SubSeq(s, i + 2, Len(s)), sep)

\* The digits part of an int() literal: decimal digits, single underscores
\* allowed between digits only.
RECURSIVE IsDigitRun(_, _)
IsDigitRun(s, prevDigit) ==
    IF s = "" THEN prevDigit
    ELSE IF IndexIn(CharAt(s, 1), DecDigits) > 0 THEN IsDigitRun(SubSeq(s, 2, Len(s)), TRUE)
    ELSE IF CharAt(s, 1) = "_" THEN prevDigit /\ IsDigitRun(SubSeq(s, 2, Len(s)), FALSE)
    ELSE FALSE

RECURSIVE DigitRunValue(_, _)
DigitRunValue(s, acc) ==
    IF s = "" THEN acc
    ELSE IF CharAt(s, 1) = "_" THEN DigitRunValue(SubSeq(s, 2, Len(s)), acc)
    ELSE DigitRunValue(SubSeq(s, 2, Len(s)), 10 * acc + IndexIn(CharAt(s, 1), DecDigits) - 1)

Unsigned(s) ==
    IF s # "" /\ CharAt(s, 1) \in {"+", "-"} THEN SubSeq(s, 2, Len(s)) ELSE s

\* Whether int(s) returns (otherwise it raises ValueError).
int_ok(s) == IsDigitRun(Unsigned(strip(s)), FALSE)

\* int(s) for a literal int() accepts.
int(s) ==
    LET t == strip(s)
        v == DigitRunValue(Unsigned(t), 0)
    IN IF startswith(t, "-") THEN -v ELSE v

\* The hexadecimal digits of n >= 0, lowercase, no leading zeros ("0" for 0).
RECURSIVE ToHex(_)
ToHex(n) ==
    IF n < 16 THEN CharAt(HexDigits, n + 1)
    ELSE ToHex(n \div 16) \o CharAt(HexDigits, (n % 16) + 1)

RECURSIVE ZeroPad(_, _)
ZeroPad(s, width) == IF Len(s) >= width THEN s ELSE ZeroPad("0" \o s, width)

\* format(n, "02x"): sign-aware zero padding to a minimum width of 2.
Width == 2

\* Faulty variant: "x" instead of "02x", no padding.
format_x(n) == IF n < 0 THEN "-" \o ToHex(-n) ELSE ToHex(n)

format_02x(n) ==
    IF n < 0 THEN "-" \o ZeroPad(ToHex(-n), Width - 1) ELSE ZeroPad(ToHex(n), Width)

----------------------------------------------------------------------------
(* version_to_pattern                                                      *)

Raised(exc) == [ok |-> FALSE, value |-> "", error |-> exc]

Returned(v) == [ok |-> TRUE, value |-> v, error |-> ""]

NotCalled == [ok |-> FALSE, value |-> "", error |-> "not called"]

\* Faulty variant: the major byte rendered into the pattern, as the module docstring
\* describes the layout.
version_to_pattern_with_major(v) ==
    LET parts == split(v, ".") IN
    IF Len(parts) # 3 THEN Raised("ValueError")
    ELSE IF ~ (int_ok(parts[1]) /\ int_ok(parts[2]) /\ int_ok(parts[3]))
    THEN Raised("ValueError")
    ELSE Returned("64736f6c6343" \o format_02x(int(parts[1])) \o format_02x(int(parts[2]))
                  \o format_02x(int(parts[3])) \o "0033")

\* Faulty variant: patch rendered before minor.
version_to_pattern_swapped(v) ==
    LET parts == split(v, ".") IN
    IF Len(parts) # 3 THEN Raised("ValueError")
    ELSE IF ~ (int_ok(parts[1]) /\ int_ok(parts[2]) /\ int_ok(parts[3]))
    THEN Raised("ValueError")
    ELSE Returned("64736f6c634300" \o format_02x(int(parts[3]))
                  \o format_02x(int(parts[2])) \o "0033")

\* Faulty variant: the part count checked as "at least three", later parts dropped.
version_to_pattern_truncating(v) ==
    LET parts == split(v, ".") IN
    IF Len(parts) < 3 THEN Raised("ValueError")
    ELSE IF ~ (int_ok(parts[1]) /\ int_ok(parts[2]) /\ int_ok(parts[3]))
    THEN Raised("ValueError")
    ELSE Returned("64736f6c634300" \o format_02x(int(parts[2]))
                  \o format_02x(int(parts[3])) \o "0033")

version_to_pattern(v) ==
    LET parts == split(v, ".") IN
    IF Len(parts) # 3 THEN Raised("ValueError")
    ELSE IF ~ (int_ok(parts[1]) /\ int_ok(parts[2]) /\ int_ok(parts[3]))
    THEN Raised("ValueError")
    ELSE Returned("64736f6c634300" \o format_02x(int(parts[2]))
                  \o format_02x(int(parts[3])) \o "0033")

----------------------------------------------------------------------------
(* extract_constructor_args                                                *)

None == [found |-> FALSE, value |-> ""]

Some(v) == [found |-> TRUE, value |-> v]

\* Python truthiness of a str | None value.
Truthy(r) == r.found /\ r.value # ""

\* Faulty variant: the blob is not lowercased.
normalized_case_sensitive(d) ==
    LET d1 == strip(d) IN
    IF startswith(d1, "0x") THEN SubSeq(d1, 3, Len(d1)) ELSE d1

\* Lines 33-35: trim, lowercase, drop one leading "0x".
normalized(d) ==
    LET d1 == lower(strip(d)) IN
    IF startswith(d1, "0x") THEN SubSeq(d1, 3, Len(d1)) ELSE d1

\* str.rfind(sub): the highest index at which sub occurs, -1 when there is none.
RECURSIVE RFindFrom(_, _, _)
RFindFrom(s, sub, i) ==
    IF i < 0 THEN -1
    ELSE IF SubSeq(s, i + 1, i + Len(sub)) = sub THEN i
    ELSE RFindFrom(s, sub, i - 1)

\* Faulty variant: the last occurrence of the marker instead of the first.
slice_after_last(d, p) ==
    LET idx == RFindFrom(d, lower(p), Len(d) - Len(p))
        args_start == idx + Len(p)
    IN IF idx = -1 THEN None
       ELSE IF args_start >= Len(d) THEN None
       ELSE Some("0x" \o SubSeq(d, args_start + 1, Len(d)))

\* Faulty variant: ">" instead of ">=" in the trailing-bytes check.
slice_after_off_by_one(d, p) ==
    LET idx == find(d, lower(p))
        args_start == idx + Len(p)
    IN IF idx = -1 THEN None
       ELSE IF args_start > Len(d) THEN None
       ELSE Some("0x" \o SubSeq(d, args_start + 1, Len(d)))

\* Lines 37-45 on the normalized blob d.
slice_after(d, p) ==
    LET idx == find(d, lower(p))
        args_start == idx + Len(p)
    IN IF idx = -1 THEN None
       ELSE IF args_start >= Len(d) THEN None
       ELSE Some("0x" \o SubSeq(d, args_start + 1, Len(d)))

extract_constructor_args(d, p) == slice_after(normalized(d), p)

----------------------------------------------------------------------------
(* main                                                                    *)

Usage ==
    << "Usage: extract_constructor_args.py <initcode_file_or_hex> <solc_version>",
       "\nExamples:",
       "  extract_constructor_args.py /tmp/initcode.txt 0.8.29",
       "  extract_constructor_args.py 0x608060405234801... 0.8.28",
       "\nGet solc version from foundry.toml: grep solc foundry.toml" >>

\* len(sys.argv) < 3, sys.argv[0] being the script itself.
MinArgc == 3

too_few_args(av) == Len(av) + 1 < MinArgc

\* os.path.isfile
isfile(fs, path) == path \in DOMAIN fs

\* Faulty variant: a specifier that does not look like a path is taken literally
\* without asking the filesystem.
load_data_literal_first(fs, input_arg) ==
    IF find(input_arg, "/") # -1 /\ isfile(fs, input_arg)
    THEN IF fs[input_arg].readable THEN Returned(fs[input_arg].content)
         ELSE Raised("OSError")
    ELSE Returned(input_arg)

\* Lines 61-65: the file's contents when the specifier names a file (open()
\* raises OSError when the file cannot be read), the specifier otherwise.
load_data(fs, input_arg) ==
    IF isfile(fs, input_arg)
    THEN IF fs[input_arg].readable THEN Returned(fs[input_arg].content)
         ELSE Raised("OSError")
    ELSE Returned(input_arg)

\* The interpreter's report of an uncaught exception.
Traceback(exc) == "Traceback (most recent call last): " \o exc

\* Faulty variant: the diagnostic printed without file=sys.stderr.
report_to_stdout(a, p) ==
    IF Truthy(a)
    THEN [out |-> <<a.value>>, err |-> <<>>, code |-> 0]
    ELSE [out |-> <<"Pattern " \o p \o " not found in initCode">>, err |-> <<>>,
          code |-> 1]

\* Lines 71-75: what main prints and how it exits, given the extraction's
\* result a and the pattern p.
report(a, p) ==
    IF Truthy(a)
    THEN [out |-> <<a.value>>, err |-> <<>>, code |-> 0]
    ELSE [out |-> <<>>, err |-> <<"Pattern " \o p \o " not found in initCode">>,
          code |-> 1]

PrintUsage ==
    /\ pc = "main"
    /\ too_few_args(argv)
    /\ stdout' = stdout \o Usage
    /\ exitcode' = 1
    /\ pc' = "exited"
    /\ UNCHANGED <<argv, files, calls, version, data, pattern, args, stderr,
                   version2, pattern2, data2, args2>>

LoadDone ==
    /\ pc = "main"
    /\ ~ too_few_args(argv)
    /\ load_data(files, argv[1]).ok
    /\ version' = argv[2]
    /\ data' = load_data(files, argv[1]).value
    /\ calls' = calls \o (IF isfile(files, argv[1]) THEN <<"isfile", "read">>
                          ELSE <<"isfile">>)
    /\ pc' = "loaded"
    /\ UNCHANGED <<argv, files, pattern, args, stdout, stderr, exitcode,
                   version2, pattern2, data2, args2>>

LoadRaises ==
    /\ pc = "main"
    /\ ~ too_few_args(argv)
    /\ ~ load_data(files, argv[1]).ok
    /\ version' = argv[2]
    /\ calls' = calls \o <<"isfile", "read">>
    /\ stderr' = stderr \o <<Traceback(load_data(files, argv[1]).error)>>
    /\ exitcode' = 1
    /\ pc' = "exited"
    /\ UNCHANGED <<argv, files, data, pattern, args, stdout,
                   version2, pattern2, data2, args2>>

BuildPattern ==
    /\ pc = "loaded"
    /\ version_to_pattern(version).ok
    /\ pattern' = version_to_pattern(version)
    /\ calls' = calls \o <<"version_to_pattern">>
    /\ pc' = "built"
    /\ UNCHANGED <<argv, files, version, data, args, stdout, stderr, exitcode,
                   version2, pattern2, data2, args2>>

BuildPatternRaises ==
    /\ pc = "loaded"
    /\ ~ version_to_pattern(version).ok
    /\ pattern' = version_to_pattern(version)
    /\ calls' = calls \o <<"version_to_pattern">>
    /\ stderr' = stderr \o <<Traceback(version_to_pattern(version).error)>>
    /\ exitcode' = 1
    /\ pc' = "exited"
    /\ UNCHANGED <<argv, files, version, data, args, stdout,
                   version2, pattern2, data2, args2>>

Extract ==
    /\ pc = "built"
    /\ args' = extract_constructor_args(data, pattern.value)
    /\ calls' = calls \o <<"extract_constructor_args">>
    /\ pc' = "extracted"
    /\ UNCHANGED <<argv, files, version, data, pattern, stdout, stderr, exitcode,
                   version2, pattern2, data2, args2>>

ReportFound ==
    /\ pc = "extracted"
    /\ Truthy(args)
    /\ stdout' = stdout \o report(args, pattern.value).out
    /\ stderr' = stderr \o report(args, pattern.value).err
    /\ exitcode' = report(args, pattern.value).code
    /\ pc' = "exited"
    /\ UNCHANGED <<argv, files, calls, version, data, pattern, args,
                   version2, pattern2, data2, args2>>

ReportNotFound ==
    /\ pc = "extracted"
    /\ ~ Truthy(args)
    /\ stdout' = stdout \o report(args, pattern.value).out
    /\ stderr' = stderr \o report(args, pattern.value).err
    /\ exitcode' = report(args, pattern.value).code
    /\ pc' = "exited"
    /\ UNCHANGED <<argv, files, calls, version, data, pattern, args,
                   version2, pattern2, data2, args2>>

----------------------------------------------------------------------------
(* The runs of the program: main started on a command line and a          *)
(* filesystem.                                                             *)

\* The marker of solc 0.8.29 and blobs around it.
Marker29 == "64736f6c634300081d0033"

LiteralBlobs ==
    { "6080604064736f6c634300081d00330011",
      "0X608064736F6C634300081D0033000000000000000000000000AAAA",
      " 0x6080" \o Marker29 \o "00ff\n",
      "6080" \o Marker29,
      Marker29 \o Marker29,
      "0x" \o Marker29 \o "0011" \o Marker29,
      "60806040",
      "" }

Paths == { "/tmp/initcode.txt", "6080604064736f6c634300081d00330011" }

Specifiers == LiteralBlobs \cup Paths

MainVersions ==
    { "0.8.29", "0.8.28", "1.8.29", "0.8.300", "0.-1.29", " 0 . 8 . 29 ",
      "1.2", "1.2.3.4", "0.8.29.", "0.8.x", "x.8.29", "0..29", "0.8.2 9", "" }

\* How many arguments beyond the two the usage names a command line may carry.
MaxExtraArgs == 1

RECURSIVE Extras(_)
Extras(n) == IF n = 0 THEN {<<>>} ELSE Extras(n - 1) \cup {e \o <<"0.8.29">> : e \in Extras(n - 1)}

CommandLines ==
    {<<>>} \cup {<<a>> : a \in Specifiers}
    \cup {<<a, v>> \o e : a \in Specifiers, v \in MainVersions, e \in Extras(MaxExtraArgs)}

\* No file, or one regular file, readable or not.
Filesystems ==
    {<<>>} \cup
    { [q \in {path} |-> [content |-> c, readable |-> r]] :
        path \in Paths, c \in LiteralBlobs, r \in BOOLEAN }

Init ==
    /\ argv \in CommandLines
    /\ files \in Filesystems
    /\ pc = "main"
    /\ calls = <<>>
    /\ version = ""
    /\ data = ""
    /\ pattern = NotCalled
    /\ args = None
    /\ stdout = <<>>
    /\ stderr = <<>>
    /\ exitcode = -1
    /\ version2 = ""
    /\ pattern2 = NotCalled
    /\ data2 = ""
    /\ args2 = None

Next ==
    \/ PrintUsage
    \/ LoadDone
    \/ LoadRaises
    \/ BuildPattern
    \/ BuildPatternRaises
    \/ Extract
    \/ ReportFound
    \/ ReportNotFound

Spec == Init /\ [][Next]_vars

----------------------------------------------------------------------------
(* version_to_pattern called on its own, on two version strings that      *)
(* differ in their major part only.                                        *)

RECURSIVE ToDecimal(_)
ToDecimal(n) ==
    IF n < 0 THEN "-" \o ToDecimal(-n)
    ELSE IF n < 10 THEN CharAt(DecDigits, n + 1)
    ELSE ToDecimal(n \div 10) \o CharAt(DecDigits, (n % 10) + 1)

\* The largest minor and patch number tried, and the most negative one.
MaxNum == 258

MaxNeg == 17

Sweep == (0 - MaxNeg)..MaxNum

Companions == {0, 29, 255}

OddParts == {"", "x", "1d", " 8", "8\n", "+8", "0_8", "08", "_8", "8_", "4096", "0x8", "-", "- 8"}

MajorParts == {"0", "1", "256", "-1", "x", ""}

VersionTails ==
    { "." \o ToDecimal(a) \o "." \o ToDecimal(b) : a \in Sweep, b \in Companions }
    \cup { "." \o ToDecimal(a) \o "." \o ToDecimal(b) : a \in Companions, b \in Sweep }
    \cup { "." \o p \o ".29" : p \in OddParts }
    \cup { ".8." \o p : p \in OddParts }
    \cup { "", ".8", ".8.29.0", ".8.29." }

InitPattern ==
    /\ \E m1 \in MajorParts, m2 \in MajorParts, t \in VersionTails :
          /\ version = m1 \o t
          /\ version2 = m2 \o t
    /\ pc = "call"
    /\ calls = <<>>
    /\ argv = <<>>
    /\ files = <<>>
    /\ data = ""
    /\ pattern = NotCalled
    /\ args = None
    /\ stdout = <<>>
    /\ stderr = <<>>
    /\ exitcode = -1
    /\ pattern2 = NotCalled
    /\ data2 = ""
    /\ args2 = None

CallVersionToPattern ==
    /\ pc = "call"
    /\ pattern' = version_to_pattern(version)
    /\ pattern2' = version_to_pattern(version2)
    /\ calls' = calls \o <<"version_to_pattern", "version_to_pattern">>
    /\ pc' = "returned"
    /\ UNCHANGED <<argv, files, version, data, args, stdout, stderr, exitcode,
                   version2, data2, args2>>

NextPattern == CallVersionToPattern

SpecPattern == InitPattern /\ [][NextPattern]_vars

----------------------------------------------------------------------------
(* extract_constructor_args called on its own, on a blob, a variant of it  *)
(* (prefixed, recased, surrounded by whitespace) and an arbitrary marker.  *)

MaxBlobLen == 3

MaxMarkerLen == 2

BlobChars == {"0", "x", "a", " "}

MarkerChars == {"0", "x", "a", "A"}

RECURSIVE Strings(_, _)
Strings(chars, n) ==
    IF n = 0 THEN {""}
    ELSE Strings(chars, n - 1) \cup {s \o c : s \in Strings(chars, n - 1), c \in chars}

ToUpper == [c \in {CharAt(LowerChars, i) : i \in 1..Len(LowerChars)} |->
               CharAt(UpperChars, IndexIn(c, LowerChars))]

UpperChar(c) == IF c \in DOMAIN ToUpper THEN ToUpper[c] ELSE c

\* s with the characters at odd (k = 1) or all (k = 0) positions in upper case.
RECURSIVE Recased(_, _)
Recased(s, k) ==
    IF s = "" THEN ""
    ELSE UpperChar(CharAt(s, 1))
         \o (IF k = 0 THEN Recased(SubSeq(s, 2, Len(s)), 0)
             ELSE IF Len(s) = 1 THEN ""
             ELSE CharAt(s, 2) \o Recased(SubSeq(s, 3, Len(s)), k))

Recasings(s) == {s, Recased(s, 0), Recased(s, 1)}

Prefixes == {"", "0x", "0X"}

Surroundings == {<<"", "">>, <<" ", "\n">>}

Variants(b) ==
    { w[1] \o pre \o c \o w[2] : w \in Surroundings, pre \in Prefixes, c \in Recasings(b) }

InitExtract ==
    /\ data \in Strings(BlobChars, MaxBlobLen)
    /\ data2 \in Variants(data)
    /\ pattern \in {Returned(p) : p \in Strings(MarkerChars, MaxMarkerLen)}
    /\ pc = "call"
    /\ calls = <<>>
    /\ argv = <<>>
    /\ files = <<>>
    /\ version = ""
    /\ args = None
    /\ stdout = <<>>
    /\ stderr = <<>>
    /\ exitcode = -1
    /\ version2 = ""
    /\ pattern2 = NotCalled
    /\ args2 = None

CallExtract ==
    /\ pc = "call"
    /\ args' = extract_constructor_args(data, pattern.value)
    /\ args2' = extract_constructor_args(data2, pattern.value)
    /\ calls' = calls \o <<"extract_constructor_args", "extract_constructor_args">>
    /\ pc' = "returned"
    /\ UNCHANGED <<argv, files, version, data, pattern, stdout, stderr, exitcode,
                   version2, pattern2, data2>>

NextExtract == CallExtract

SpecExtract == InitExtract /\ [][NextExtract]_vars

----------------------------------------------------------------------------
(* Properties.                                                             *)

Called(f) == \E i \in 1..Len(calls) : calls[i] = f

\* Two lowercase hex digits of a byte, read off the digit table.
Hex2(n) == CharAt(HexDigits, (n \div 16) + 1) \o CharAt(HexDigits, (n % 16) + 1)

OnlyHex(s) == \A i \in 1..Len(s) : IndexIn(CharAt(s, i), HexDigits) > 0

Accepted(v) ==
    /\ Len(split(v, ".")) = 3
    /\ \A i \in 1..3 : int_ok(split(v, ".")[i])

Major(v) == int(split(v, ".")[1])

Minor(v) == int(split(v, ".")[2])

Patch(v) == int(split(v, ".")[3])

Byte == 0..255

C2_Hex26 ==
    (pc = "returned" /\ Accepted(version))
        => pattern.ok /\ OnlyHex(pattern.value) /\ Len(pattern.value) = 26

\* C2, amended: an accepted version string with minor and patch in [0,255]
\* gives a pattern of the characters 0-9a-f only, 22 characters long; a minor
\* or patch above 255 makes the pattern longer than 22, a negative minor or
\* patch puts a "-" into it.
C2_Hex22InRange ==
    (pc = "returned" /\ Accepted(version))
        => /\ pattern.ok
           /\ (Minor(version) \in Byte /\ Patch(version) \in Byte)
                => (OnlyHex(pattern.value) /\ Len(pattern.value) = 22)
           /\ (Minor(version) > 255 \/ Patch(version) > 255)
                => Len(pattern.value) > 22
           /\ (Minor(version) < 0 \/ Patch(version) < 0)
                => \E i \in 1..Len(pattern.value) : CharAt(pattern.value, i) = "-"

C2_Witness ==
    /\ pc = "returned"
    /\ version = "0.8.255"
    /\ Len(pattern.value) = 22
    /\ OnlyHex(pattern.value)

\* The parts of v after the major part.
AfterMajor(v) == SubSeq(split(v, "."), 2, Len(split(v, ".")))

----------------------------------------------------------------------------

\* The 0-based indices at which sub occurs in s.
Occurrences(s, sub) ==
    {i \in 0..(Len(s) - Len(sub)) : SubSeq(s, i + 1, i + Len(sub)) = sub}

Least(S) == CHOOSE i \in S : \A j \in S : i <= j

EndsWith(s, sub) == (Len(s) - Len(sub)) \in Occurrences(s, sub)

\* C3, as stated: a leading 0x or 0X, another letter case and surrounding
\* whitespace added to any blob never change the extraction's result.
C3_VariantSameResult ==
    (pc = "returned" /\ data2 \in Variants(data)) => args2 = args

\* A blob with no whitespace at either end that does not begin with 0x or 0X.
Bare(b) ==
    /\ b # "" => (CharAt(b, 1) \notin Whitespace /\ CharAt(b, Len(b)) \notin Whitespace)
    /\ ~ (Len(b) >= 2 /\ CharAt(b, 1) = "0" /\ CharAt(b, 2) \in {"x", "X"})

\* C3, amended: for a blob with no whitespace at either end that does not
\* itself begin with 0x or 0X, the result is the same for the blob with its
\* letters recased, then one 0x or 0X put in front, then whitespace put around.
C3_BareVariantSameResult ==
    (pc = "returned" /\ Bare(data) /\ data2 \in Variants(data)) => args2 = args

C3_Witness ==
    /\ pc = "returned"
    /\ data = "a0"
    /\ data2 = " 0XA0\n"
    /\ pattern.value = "A"
    /\ args = Some("0x0")
    /\ args2 = args

\* The reference result on blob b and marker p.
Reference(b, p) ==
    LET d == normalized(b)
        occ == Occurrences(d, lower(p))
    IN IF occ = {} THEN None
       ELSE IF Least(occ) + Len(p) >= Len(d) THEN None
       ELSE Some("0x" \o SubSeq(d, Least(occ) + Len(p) + 1, Len(d)))

\* C4: the extractor agrees with the reference: not-found when the lowercased
\* marker does not occur in the normalized blob or nothing follows its first
\* occurrence, otherwise 0x and all that follows the first occurrence, which
\* is not empty.
C4_AgreesWithReference ==
    pc = "returned"
        => /\ args = Reference(data, pattern.value)
           /\ args2 = Reference(data2, pattern.value)
           /\ args.found => Len(args.value) > 2
           /\ args2.found => Len(args2.value) > 2

C4_Witness ==
    /\ pc = "returned"
    /\ data = "a0a"
    /\ pattern.value = "A"
    /\ args = Some("0x0a")

\* C5, as stated: whenever the normalized blob ends with the marker (a marker
\* of at least one character), the extractor returns not-found.
C5_EndsWithMarkerNotFound ==
    (pc = "returned" /\ pattern.value # "")
        => /\ EndsWith(normalized(data), lower(pattern.value)) => args = None
           /\ EndsWith(normalized(data2), lower(pattern.value)) => args2 = None

\* The marker's first occurrence in the normalized blob is the blob's end.
FirstAtEnd(b, p) ==
    LET d == normalized(b) IN
    Occurrences(d, lower(p)) = {Len(d) - Len(p)}

\* C5, amended: whenever the marker's first (leftmost) occurrence in the
\* normalized blob is the blob's final characters, the extractor returns
\* not-found.
C5_FirstAtEndNotFound ==
    /\ (pc = "returned" /\ FirstAtEnd(data, pattern.value)) => args = None
    /\ (pc = "returned" /\ FirstAtEnd(data2, pattern.value)) => args2 = None

C5_Witness ==
    /\ pc = "returned"
    /\ data = "0xa"
    /\ pattern.value = "A"
    /\ FirstAtEnd(data, pattern.value)
    /\ args = None

----------------------------------------------------------------------------

\* C6: a command line of any length other than two ends with the usage text
\* on standard output and status 1, with no file read, no pattern built and
\* no extraction run.
C6_UsageUnlessTwoArgs ==
    Len(argv) # 2
        => /\ ~ Called("read")
           /\ ~ Called("version_to_pattern")
           /\ ~ Called("extract_constructor_args")
           /\ pc = "exited" => (stdout = Usage /\ exitcode = 1)

Contains(s, sub) == Occurrences(s, sub) # {}

\* C7: the exit status is 0 exactly when the extraction returned a value, and
\* then that value alone is on standard output; after a not-found, standard
\* output is empty, standard error names the pattern, and the status is 1.
C7_ReportMatchesExtraction ==
    pc = "exited"
        => /\ exitcode = 0 <=> (Called("extract_constructor_args") /\ args.found)
           /\ (Called("extract_constructor_args") /\ args.found)
                => (stdout = <<args.value>> /\ stderr = <<>>)
           /\ (Called("extract_constructor_args") /\ ~ args.found)
                => /\ stdout = <<>>
                   /\ Len(stderr) = 1
                   /\ Contains(stderr[1], pattern.value)
                   /\ exitcode = 1

C7_Witness ==
    /\ pc = "exited"
    /\ version = "0.8.29"
    /\ args = Some("0x0011")
    /\ stdout = <<"0x0011">>
    /\ exitcode = 0

Dots(v) == {i \in 1..Len(v) : CharAt(v, i) = "."}

\* A version string with other than three dot-separated parts, or a part
\* int() does not take.
Malformed(v) ==
    \/ Cardinality(Dots(v)) # 2
    \/ \E i \in 1..Len(split(v, ".")) : ~ int_ok(split(v, ".")[i])

\* C8: on a malformed version string version_to_pattern raises ValueError and
\* returns no pattern; main then ends with a non-zero status, before the
\* extraction and with nothing on standard output.
C8_MalformedVersionFatal ==
    (Called("version_to_pattern") /\ Malformed(version))
        => /\ pattern = Raised("ValueError")
           /\ pc = "exited"
           /\ exitcode > 0
           /\ stdout = <<>>
           /\ ~ Called("extract_constructor_args")

C8_Witness ==
    /\ Len(argv) = 2
    /\ version = "1.2.3.4"
    /\ Called("version_to_pattern")
    /\ pattern = Raised("ValueError")
    /\ pc = "exited"
    /\ exitcode = 1

Count(f) == Cardinality({i \in 1..Len(calls) : calls[i] = f})

\* C9: the blob main works on is the named file's contents, read once,
\* whenever the specifier names an existing file, and the specifier itself
\* otherwise.
C9_FileBeforeLiteral ==
    (pc \in {"loaded", "built", "extracted"} \/ Called("extract_constructor_args"))
        => IF argv[1] \in DOMAIN files
           THEN data = files[argv[1]].content /\ Count("read") = 1
           ELSE data = argv[1] /\ Count("read") = 0

C9_Witness ==
    /\ Called("extract_constructor_args")
    /\ argv[1] = "6080604064736f6c634300081d00330011"
    /\ argv[1] \in DOMAIN files
    /\ data = "60806040"
    /\ args = None

====
